---- MODULE Spec2Model ----
(***************************************************************************)
(* Model of check_temperature.py: one cron invocation reads the CPU        *)
(* package temperature, appends it to a short persisted history, and       *)
(* raises a push notification when the mean of the last WINDOW_SIZE        *)
(* readings exceeds THRESHOLD.                                             *)
(*                                                                         *)
(* Temperatures are whole degrees Celsius.  The comparison                 *)
(* sum(temps) / len(temps) > threshold is carried out exactly, as          *)
(* sum(temps) > threshold * len(temps); binary floating point rounding is  *)
(* outside the model.                                                      *)
(***************************************************************************)
EXTENDS Integers, Sequences, FiniteSets, TLC

\* ------------------------------------------------------------ constants
THRESHOLD == 90
WINDOW_SIZE == 3

\* ------------------------------------------------------------ bounds
MaxRuns == 3        \* invocations in one behaviour
MaxFileLen == 4     \* entries of the record found on disk at the start
MaxHist == 4        \* entries of a history handed to check_and_alert
MaxW == 3           \* largest window_size handed to check_and_alert

Procs == {1, 2}

\* ------------------------------------------------------------ JSON values
\* The value found under "temperature" in a history entry:
\* a number, a boolean, some other JSON value (a string), or no such key.
Num(t) == [ty |-> "num", v |-> t]
Bool(b) == [ty |-> "bool", v |-> IF b THEN 1 ELSE 0]
Str == [ty |-> "str", v |-> 0]
Absent == [ty |-> "absent", v |-> 0]

\* The dict main() appends.
Observation(ts, temp, over) ==
    [dict |-> TRUE, timestamp |-> ts, temperature |-> Num(temp),
     over_threshold |-> over, threshold |-> THRESHOLD]

\* A JSON object that carries the given value under "temperature".
Dict(tv) ==
    [dict |-> TRUE, timestamp |-> 0, temperature |-> tv,
     over_threshold |-> FALSE, threshold |-> THRESHOLD]

\* A list element that is not a JSON object (a number, a string, null, a list).
NonDict ==
    [dict |-> FALSE, timestamp |-> 0, temperature |-> Absent,
     over_threshold |-> FALSE, threshold |-> 0]

\* ------------------------------------------------------------ helpers
Max(a, b) == IF a > b THEN a ELSE b

\* Python s[-n:] for n >= 0 (s[-0:] is s[0:], the whole list).
TailSlice(s, n) ==
    IF n = 0 THEN s ELSE SubSeq(s, Max(1, Len(s) - n + 1), Len(s))

RECURSIVE sum(_)
sum(s) == IF s = <<>> THEN 0 ELSE Head(s) + sum(Tail(s))

\* ------------------------------------------------------------ parser
\* The text after the number of a token of `sensors` output.  DegC is the
\* degree sign U+00B0 followed by C.  ADegC is U+00C2 U+00B0 followed by C,
\* which is what the pattern of parse_cpu_temperatures spells, and what the
\* bytes of a degree sign read when stdout is decoded as Latin-1.
DegC == "degC"
ADegC == "AdegC"
Units == {DegC, ADegC}

\* A token +<number><unit>.
Tok(v, unit) == [v |-> v, unit |-> unit]

\* A line of `sensors` output: whether it contains "Package id 0:", and its
\* tokens from left to right.
Line(label, tokens) == [label |-> label, tokens |-> tokens]

\* re.search(r"\+(\d+(?:\.\d+)?)<ADegC>", line): the tokens it can match.
matches(line) == SelectSeq(line.tokens, LAMBDA t : t.unit = ADegC)

RECURSIVE parse_cpu_temperatures(_)
parse_cpu_temperatures(sensors_output) ==
    IF sensors_output = <<>> THEN <<>>
    ELSE LET line == Head(sensors_output) IN
         IF line.label
         THEN IF matches(line) # <<>> THEN <<Head(matches(line)).v>> ELSE <<>>
         ELSE parse_cpu_temperatures(Tail(sensors_output))

\* ------------------------------------------------------------ history store
\* The record on disk: no file, a file open() cannot read, a file that is
\* not valid JSON, a JSON value that is not a list, or a JSON list.
Missing == [kind |-> "missing", data |-> <<>>]
Unreadable == [kind |-> "unreadable", data |-> <<>>]
Corrupt == [kind |-> "corrupt", data |-> <<>>]
NonList == [kind |-> "nonlist", data |-> <<>>]
ListFile(h) == [kind |-> "list", data |-> h]

\* json.dump(history, f): the text of a JSON list, entries in order.
json_dump(history) == ListFile(history)

\* json.load(f): the parsed value, or an exception.
json_load(f) ==
    CASE f.kind = "list" -> [exc |-> FALSE, islist |-> TRUE, data |-> f.data]
      [] f.kind = "nonlist" -> [exc |-> FALSE, islist |-> FALSE, data |-> <<>>]
      [] OTHER -> [exc |-> TRUE, islist |-> FALSE, data |-> <<>>]

\* isinstance test the wrong way round.
load_history_inverted(f) ==
    IF f.kind = "missing" THEN <<>>
    ELSE LET data == json_load(f) IN
         IF data.exc THEN <<>>
         ELSE IF ~data.islist THEN data.data ELSE <<>>

load_history(f) ==
    IF f.kind = "missing" THEN <<>>
    ELSE LET data == json_load(f) IN
         IF data.exc THEN <<>>
         ELSE IF data.islist THEN data.data ELSE <<>>

\* save_history: the record after the call.  open(path, "w") may fail and
\* leave the record as it was; json.dump may fail after the file was
\* truncated and leave partial text; otherwise the record is the dump.
SaveOutcomes == {"ok", "open_failed", "write_failed"}

\* open(path, "x") in place of "w": FileExistsError once the record exists.
save_history_exclusive(f, history, outcome) ==
    CASE outcome = "ok" -> IF f.kind = "missing" THEN json_dump(history) ELSE f
      [] outcome = "open_failed" -> f
      [] OTHER -> Corrupt

\* open(path, "a") in place of "w": the dump lands after the old text.
save_history_append(f, history, outcome) ==
    CASE outcome = "ok" -> IF f.kind = "missing" THEN json_dump(history) ELSE Corrupt
      [] outcome = "open_failed" -> f
      [] OTHER -> Corrupt

\* Re-reads the record and appends the newest entry to what it finds.
save_history_merge(f, history, outcome) ==
    CASE outcome = "ok" ->
            IF f.kind = "list" /\ history # <<>>
            THEN json_dump(TailSlice(Append(f.data, history[Len(history)]), WINDOW_SIZE))
            ELSE json_dump(history)
      [] outcome = "open_failed" -> f
      [] OTHER -> Corrupt

save_history(f, history, outcome) ==
    CASE outcome = "ok" -> json_dump(history)
      [] outcome = "open_failed" -> f
      [] OTHER -> Corrupt

\* send_notification: no topic configured, requests.post raises, or posted.
\* None of the three escapes the function.
Deliveries == {"no_topic", "post_failed", "posted"}

\* ------------------------------------------------------------ alert evaluator
IsNumeric(tv) == tv.ty \in {"num", "bool"}

Triggered == [ret |-> "True", alert |-> TRUE]
NotTriggered == [ret |-> "False", alert |-> FALSE]
Raised == [ret |-> "raise", alert |-> FALSE]

\* avg_temp > threshold, with avg_temp = sum(temps) / len(temps), len > 0
\* >= in place of >.
exceeds_or_equal(temps, threshold) == sum(temps) >= threshold * Len(temps)

exceeds(temps, threshold) == sum(temps) > threshold * Len(temps)

\* temps = [e["temperature"] for e in window if isinstance(e.get(...), (int, float))]
numeric_temps(window) ==
    LET kept == SelectSeq(window, LAMBDA e : IsNumeric(e.temperature))
    IN  [i \in 1..Len(kept) |-> kept[i].temperature.v]

\* Without the two length tests: averages whatever the window holds.
check_and_alert_partial(history, window_size, threshold) ==
    LET window == TailSlice(history, window_size) IN
    IF \E i \in 1..Len(window) : ~window[i].dict
    THEN Raised
    ELSE LET temps == numeric_temps(window) IN
         IF Len(temps) = 0 THEN Raised
         ELSE IF exceeds(temps, threshold) THEN Triggered
         ELSE NotTriggered

\* Consults the recorded flag: alerts only when the newest entry is over.
check_and_alert_flagged(history, window_size, threshold) ==
    IF Len(history) < window_size THEN NotTriggered
    ELSE LET window == TailSlice(history, window_size) IN
         IF \E i \in 1..Len(window) : ~window[i].dict
         THEN Raised
         ELSE LET temps == numeric_temps(window) IN
              IF Len(temps) < window_size THEN NotTriggered
              ELSE IF Len(temps) = 0 THEN Raised
              ELSE IF exceeds(temps, threshold) /\ window[Len(window)].over_threshold
                   THEN Triggered
              ELSE NotTriggered

check_and_alert(history, window_size, threshold) ==
    IF Len(history) < window_size THEN NotTriggered
    ELSE LET window == TailSlice(history, window_size) IN
         IF \E i \in 1..Len(window) : ~window[i].dict
         THEN Raised      \* e.get: AttributeError
         ELSE LET temps == numeric_temps(window) IN
              IF Len(temps) < window_size THEN NotTriggered
              ELSE IF Len(temps) = 0 THEN Raised    \* ZeroDivisionError
              ELSE IF exceeds(temps, threshold) THEN Triggered
              ELSE NotTriggered

\* ------------------------------------------------------------ orchestrator
append_observation(history, ts, current_temp) ==
    Append(history, Observation(ts, current_temp, current_temp > THRESHOLD))

\* history[:WINDOW_SIZE] in place of history[-WINDOW_SIZE:].
truncate_head(history) ==
    IF Len(history) > WINDOW_SIZE THEN SubSeq(history, 1, WINDOW_SIZE) ELSE history

\* Off by one in the length test.
truncate_late(history) ==
    IF Len(history) > WINDOW_SIZE + 1 THEN TailSlice(history, WINDOW_SIZE) ELSE history

truncate(history) ==
    IF Len(history) > WINDOW_SIZE THEN TailSlice(history, WINDOW_SIZE) ELSE history


\* ------------------------------------------------------------ state
VARIABLES
    file,        \* the persisted history record
    clock,       \* datetime.now(): observations stamped so far
    runs,        \* invocations started
    pc,          \* pc[p]: where invocation p stands in main()
    sensors,     \* sensors[p]: "ok" if run_sensors returned, "failed" if it raised
    temps,       \* temps[p]: what parse_cpu_temperatures returned
    over,        \* over[p]: current_temp > THRESHOLD
    history,     \* history[p]: main's local list
    loaded,      \* loaded[p]: what load_history returned to p
    saveResult,  \* saveResult[p]: how p's save_history call ended
    alerted,     \* alerted[p]: what check_and_alert returned to p
    exitStatus,  \* exitStatus[p]: the process exit status, -1 while running
    raised,      \* raised[p]: main ended by an uncaught exception
    notes,       \* notes[p]: send_notification calls of this invocation
    stdout,      \* stdout[p]: the Status printed, "none" if none
    lastWrite,   \* how the latest write to the record ended
    sinceReset,  \* loads since load_history last returned [], 0 if unknown
    streak,      \* completed runs since an empty start, all exit 0 at 95; -1 if broken
    streakSaved, \* every run of the streak saved its history
    lastAlerted, \* the invocation that ended last returned from main with an alert
    fileAtStart, \* fileAtStart[p]: the record when invocation p started
    saves,       \* save_history calls so far
    loadEpoch,   \* loadEpoch[p]: save_history calls made before p loaded
    saveEpoch,   \* saveEpoch[p]: which save_history call was p's, 0 if none yet
    lastWriteEpoch, \* which save_history call wrote the record last, 0 if none
    po,          \* argument of a direct call of parse_cpu_temperatures
    pr,          \* its result
    eh, ew, et,  \* arguments of a direct call of check_and_alert
    er           \* its result

mainVars == <<file, clock, runs, pc, sensors, temps, over, history, loaded, saveResult,
              alerted, exitStatus, raised, notes, stdout, lastWrite,
              sinceReset, streak, streakSaved, lastAlerted, fileAtStart,
              saves, loadEpoch, saveEpoch, lastWriteEpoch>>
evalVars == <<eh, ew, et, er>>
parseVars == <<po, pr>>
vars == <<mainVars, evalVars, parseVars>>

SeqsUpTo(S, n) == UNION {[1..k -> S] : k \in 0..n}

\* Readings the sensor can report in a run, and `sensors` outputs: empty,
\* without the label, labelled without a token, and labelled with tokens,
\* decoded either way.
Temps == {85, 90, 95}
SensorOutputs ==
    {<<>>,
     <<Line(FALSE, <<Tok(40, ADegC)>>)>>,
     <<Line(TRUE, <<>>), Line(TRUE, <<Tok(95, ADegC)>>)>>,
     <<Line(TRUE, <<Tok(95, DegC), Tok(90, DegC), Tok(100, DegC)>>)>>}
        \cup {<<Line(FALSE, <<Tok(70, ADegC)>>),
                Line(TRUE, <<Tok(t, ADegC), Tok(90, ADegC), Tok(100, ADegC)>>)>> :
                  t \in Temps}

\* Records the first invocation can find on disk.
FileEntries ==
    {Observation(0, 85, FALSE), Observation(0, 95, TRUE), Dict(Str), NonDict}
InitFiles ==
    {Missing, Unreadable, Corrupt, NonList}
        \cup {ListFile(h) : h \in SeqsUpTo(FileEntries, MaxFileLen)}

NoResult == [ret |-> "none", alert |-> FALSE]

InitLocals ==
    /\ pc = [p \in Procs |-> "idle"]
    /\ sensors = [p \in Procs |-> "none"]
    /\ temps = [p \in Procs |-> <<>>]
    /\ over = [p \in Procs |-> FALSE]
    /\ history = [p \in Procs |-> <<>>]
    /\ loaded = [p \in Procs |-> <<>>]
    /\ saveResult = [p \in Procs |-> "none"]
    /\ alerted = [p \in Procs |-> FALSE]
    /\ exitStatus = [p \in Procs |-> -1]
    /\ raised = [p \in Procs |-> FALSE]
    /\ notes = [p \in Procs |-> <<>>]
    /\ stdout = [p \in Procs |-> "none"]
    /\ fileAtStart = [p \in Procs |-> Missing]
    /\ loadEpoch = [p \in Procs |-> 0]
    /\ saveEpoch = [p \in Procs |-> 0]

NotParsed == <<-1>>

Init ==
    /\ file \in InitFiles
    /\ clock = 1
    /\ runs = 0
    /\ InitLocals
    /\ lastWrite = "none"
    /\ sinceReset = 0
    /\ streak = IF file \in {Missing, ListFile(<<>>)} THEN 0 ELSE -1
    /\ streakSaved = TRUE
    /\ lastAlerted = FALSE
    /\ saves = 0
    /\ lastWriteEpoch = 0
    /\ eh = <<>> /\ ew = 0 /\ et = 0 /\ er = NoResult
    /\ po = <<>> /\ pr = NotParsed

\* ------------------------------------------------------------ main()
\* The process starts.
Start(p) ==
    /\ pc[p] = "idle"
    /\ runs < MaxRuns
    /\ runs' = runs + 1
    /\ pc' = [pc EXCEPT ![p] = "sensors"]
    /\ UNCHANGED <<file, clock, sensors, temps, over, history, loaded, saveResult, alerted,
                   exitStatus, raised, notes, stdout, lastWrite, sinceReset,
                   streak, streakSaved, evalVars, parseVars>>
    /\ fileAtStart' = [fileAtStart EXCEPT ![p] = file]
    /\ UNCHANGED <<lastAlerted, saves, loadEpoch, saveEpoch, lastWriteEpoch>>

\* run_sensors raises RuntimeError: notify, return 1.
SensorsFail(p) ==
    /\ pc[p] = "sensors"
    /\ \E cause \in {"not_found", "nonzero_exit"}, d \in Deliveries :
          notes' = [notes EXCEPT ![p] = Append(@, [kind |-> "error", delivery |-> d])]
    /\ sensors' = [sensors EXCEPT ![p] = "failed"]
    /\ exitStatus' = [exitStatus EXCEPT ![p] = 1]
    /\ pc' = [pc EXCEPT ![p] = "done"]
    /\ UNCHANGED <<file, clock, runs, temps, over, history, loaded, saveResult,
                   alerted, raised, stdout, lastWrite, sinceReset, streak,
                   streakSaved, evalVars, parseVars>>
    /\ UNCHANGED <<lastAlerted, fileAtStart, saves, loadEpoch, saveEpoch, lastWriteEpoch>>

\* run_sensors returns text in which the parser finds nothing: notify, return 2.
NoReading(p) ==
    /\ pc[p] = "sensors"
    /\ \E output \in SensorOutputs, d \in Deliveries :
          /\ parse_cpu_temperatures(output) = <<>>
          /\ notes' = [notes EXCEPT ![p] = Append(@, [kind |-> "error", delivery |-> d])]
    /\ sensors' = [sensors EXCEPT ![p] = "ok"]
    /\ exitStatus' = [exitStatus EXCEPT ![p] = 2]
    /\ pc' = [pc EXCEPT ![p] = "done"]
    /\ UNCHANGED <<file, clock, runs, temps, over, history, loaded, saveResult,
                   alerted, raised, stdout, lastWrite, sinceReset, streak,
                   streakSaved, evalVars, parseVars>>
    /\ UNCHANGED <<lastAlerted, fileAtStart, saves, loadEpoch, saveEpoch, lastWriteEpoch>>

\* run_sensors returns text with a reading: current_temp and over are set.
Reading(p) ==
    /\ pc[p] = "sensors"
    /\ \E output \in SensorOutputs :
          /\ parse_cpu_temperatures(output) # <<>>
          /\ temps' = [temps EXCEPT ![p] = parse_cpu_temperatures(output)]
          /\ over' = [over EXCEPT ![p] = parse_cpu_temperatures(output)[1] > THRESHOLD]
    /\ sensors' = [sensors EXCEPT ![p] = "ok"]
    /\ pc' = [pc EXCEPT ![p] = "load"]
    /\ UNCHANGED <<file, clock, runs, history, loaded, saveResult, alerted,
                   exitStatus, raised, notes, stdout, lastWrite, sinceReset,
                   streak, streakSaved, evalVars, parseVars>>
    /\ UNCHANGED <<lastAlerted, fileAtStart, saves, loadEpoch, saveEpoch, lastWriteEpoch>>

\* load_history, history.append, truncation to WINDOW_SIZE.
Load(p) ==
    /\ pc[p] = "load"
    /\ loaded' = [loaded EXCEPT ![p] = load_history(file)]
    /\ history' = [history EXCEPT ![p] =
                      truncate(append_observation(load_history(file), clock, temps[p][1]))]
    /\ clock' = clock + 1
    /\ sinceReset' = IF load_history(file) = <<>> THEN 1
                     ELSE IF sinceReset = 0 THEN 0 ELSE sinceReset + 1
    /\ pc' = [pc EXCEPT ![p] = "save"]
    /\ UNCHANGED <<file, runs, sensors, temps, over, saveResult, alerted, exitStatus,
                   raised, notes, stdout, lastWrite, streak, streakSaved, evalVars, parseVars>>
    /\ loadEpoch' = [loadEpoch EXCEPT ![p] = saves]
    /\ UNCHANGED <<lastAlerted, fileAtStart, saves, saveEpoch, lastWriteEpoch>>

\* save_history(HISTORY_FILE, history)
Save(p) ==
    /\ pc[p] = "save"
    /\ \E outcome \in SaveOutcomes :
          /\ file' = save_history(file, history[p], outcome)
          /\ saveResult' = [saveResult EXCEPT ![p] = outcome]
          /\ lastWrite' = IF outcome = "open_failed" THEN lastWrite ELSE outcome
          /\ lastWriteEpoch' = IF outcome = "open_failed" THEN lastWriteEpoch ELSE saves + 1
    /\ pc' = [pc EXCEPT ![p] = "check"]
    /\ UNCHANGED <<clock, runs, sensors, temps, over, history, loaded, alerted, exitStatus,
                   raised, notes, stdout, sinceReset, streak, streakSaved, evalVars, parseVars>>
    /\ saves' = saves + 1
    /\ saveEpoch' = [saveEpoch EXCEPT ![p] = saves + 1]
    /\ UNCHANGED <<lastAlerted, fileAtStart, loadEpoch>>

\* check_and_alert raises: nothing in main catches it, the interpreter
\* prints the traceback and the process exits with status 1.
CheckRaises(p) ==
    /\ pc[p] = "check"
    /\ check_and_alert(history[p], WINDOW_SIZE, THRESHOLD) = Raised
    /\ raised' = [raised EXCEPT ![p] = TRUE]
    /\ exitStatus' = [exitStatus EXCEPT ![p] = 1]
    /\ pc' = [pc EXCEPT ![p] = "done"]
    /\ UNCHANGED <<file, clock, runs, sensors, temps, over, history, loaded, saveResult,
                   alerted, notes, stdout, lastWrite, sinceReset, streak,
                   streakSaved, evalVars, parseVars>>
    /\ UNCHANGED <<lastAlerted, fileAtStart, saves, loadEpoch, saveEpoch, lastWriteEpoch>>

\* With a cooldown: no alert in the run after one that alerted.
CheckWithCooldown(p) ==
    /\ pc[p] = "check"
    /\ LET c == check_and_alert(history[p], WINDOW_SIZE, THRESHOLD)
           r == IF lastAlerted /\ c = Triggered THEN NotTriggered ELSE c
       IN
          /\ r # Raised
          /\ alerted' = [alerted EXCEPT ![p] = (r.ret = "True")]
          /\ IF r.alert
             THEN \E d \in Deliveries :
                     notes' = [notes EXCEPT ![p] =
                                  Append(@, [kind |-> "alert", delivery |-> d])]
             ELSE notes' = notes
    /\ stdout' = [stdout EXCEPT ![p] = IF over[p] THEN "OVER" ELSE "OK"]
    /\ exitStatus' = [exitStatus EXCEPT ![p] = 0]
    /\ pc' = [pc EXCEPT ![p] = "done"]
    /\ UNCHANGED <<file, clock, runs, sensors, temps, over, history, loaded, saveResult,
                   raised, lastWrite, sinceReset, streak, streakSaved, evalVars, parseVars>>
    /\ UNCHANGED <<lastAlerted, fileAtStart, saves, loadEpoch, saveEpoch, lastWriteEpoch>>

\* check_and_alert returns; the status line is printed; return 0.
Check(p) ==
    /\ pc[p] = "check"
    /\ LET r == check_and_alert(history[p], WINDOW_SIZE, THRESHOLD) IN
          /\ r # Raised
          /\ alerted' = [alerted EXCEPT ![p] = (r.ret = "True")]
          /\ IF r.alert
             THEN \E d \in Deliveries :
                     notes' = [notes EXCEPT ![p] =
                                  Append(@, [kind |-> "alert", delivery |-> d])]
             ELSE notes' = notes
    /\ stdout' = [stdout EXCEPT ![p] = IF over[p] THEN "OVER" ELSE "OK"]
    /\ exitStatus' = [exitStatus EXCEPT ![p] = 0]
    /\ pc' = [pc EXCEPT ![p] = "done"]
    /\ UNCHANGED <<file, clock, runs, sensors, temps, over, history, loaded, saveResult,
                   raised, lastWrite, sinceReset, streak, streakSaved, evalVars, parseVars>>
    /\ UNCHANGED <<lastAlerted, fileAtStart, saves, loadEpoch, saveEpoch, lastWriteEpoch>>

\* The process is gone; its locals with it.
Exit(p) ==
    /\ pc[p] = "done"
    /\ LET kept == streak >= 0 /\ exitStatus[p] = 0 /\ temps[p] = <<95>> IN
          /\ streak' = IF kept THEN streak + 1 ELSE -1
          /\ streakSaved' = (kept /\ streakSaved /\ saveResult[p] = "ok")
    /\ pc' = [pc EXCEPT ![p] = "idle"]
    /\ sensors' = [sensors EXCEPT ![p] = "none"]
    /\ temps' = [temps EXCEPT ![p] = <<>>]
    /\ over' = [over EXCEPT ![p] = FALSE]
    /\ history' = [history EXCEPT ![p] = <<>>]
    /\ loaded' = [loaded EXCEPT ![p] = <<>>]
    /\ saveResult' = [saveResult EXCEPT ![p] = "none"]
    /\ alerted' = [alerted EXCEPT ![p] = FALSE]
    /\ exitStatus' = [exitStatus EXCEPT ![p] = -1]
    /\ raised' = [raised EXCEPT ![p] = FALSE]
    /\ notes' = [notes EXCEPT ![p] = <<>>]
    /\ stdout' = [stdout EXCEPT ![p] = "none"]
    /\ UNCHANGED <<file, clock, runs, lastWrite, sinceReset, evalVars, parseVars>>
    /\ lastAlerted' = alerted[p]
    /\ fileAtStart' = [fileAtStart EXCEPT ![p] = Missing]
    /\ loadEpoch' = [loadEpoch EXCEPT ![p] = 0]
    /\ saveEpoch' = [saveEpoch EXCEPT ![p] = 0]
    /\ UNCHANGED <<saves, lastWriteEpoch>>

Step(p) ==
    \/ SensorsFail(p)
    \/ NoReading(p)
    \/ Reading(p)
    \/ Load(p)
    \/ Save(p)
    \/ CheckRaises(p)
    \/ Check(p)
    \/ Exit(p)

\* Invocations one after the other, as cron schedules them.
Next ==
    \/ Start(1)
    \/ Step(1)

Spec == Init /\ [][Next]_vars

\* Two invocations that may overlap: nothing keeps a second process from
\* starting while the first is still running.  The record they find was
\* written by earlier runs, or is missing, unparsable or a list of
\* elements that are not objects.
RaceFiles ==
    {Missing, Corrupt, ListFile(<<NonDict, NonDict>>)}
        \cup {ListFile(h) :
                h \in SeqsUpTo({Observation(0, 85, FALSE), Observation(0, 95, TRUE)},
                               MaxFileLen)}

InitRace ==
    /\ file \in RaceFiles
    /\ clock = 1
    /\ runs = 0
    /\ InitLocals
    /\ lastWrite = "none"
    /\ sinceReset = 0
    /\ streak = -1
    /\ streakSaved = TRUE
    /\ lastAlerted = FALSE
    /\ saves = 0
    /\ lastWriteEpoch = 0
    /\ eh = <<>> /\ ew = 0 /\ et = 0 /\ er = NoResult
    /\ po = <<>> /\ pr = NotParsed

StartRace(p) ==
    /\ runs < Cardinality(Procs)
    /\ Start(p)

NextRace ==
    \E p \in Procs :
        \/ StartRace(p)
        \/ Step(p)

SpecRace == InitRace /\ [][NextRace]_vars

\* ------------------------------------------------------------ direct calls
\* check_and_alert(history, window_size, threshold) on arbitrary arguments.
EvalTemps == {88, 89, 90, 91, 92}
EvalEntries ==
    {Dict(Num(t)) : t \in EvalTemps}
        \cup {Dict(Bool(TRUE)), Dict(Str), Dict(Absent), NonDict}
Thresholds == {30, 90}

InitEval ==
    /\ file = Missing
    /\ clock = 1
    /\ runs = 0
    /\ InitLocals
    /\ lastWrite = "none"
    /\ sinceReset = 0
    /\ streak = -1
    /\ streakSaved = TRUE
    /\ lastAlerted = FALSE
    /\ saves = 0
    /\ lastWriteEpoch = 0
    /\ po = <<>> /\ pr = NotParsed
    /\ eh \in SeqsUpTo(EvalEntries, MaxHist)
    /\ ew \in 0..MaxW
    /\ et \in Thresholds
    /\ er = NoResult

Evaluate ==
    /\ er = NoResult
    /\ er' = check_and_alert(eh, ew, et)
    /\ UNCHANGED <<mainVars, eh, ew, et, parseVars>>

NextEval == Evaluate

SpecEval == InitEval /\ [][NextEval]_vars

\* ------------------------------------------------------------ direct calls
\* parse_cpu_temperatures(sensors_output) on arbitrary text.
MaxLines == 2       \* lines of a sensors output
MaxTokens == 2      \* tokens of a line
ParseValues == {75, 90}
Toks == {Tok(v, u) : v \in ParseValues, u \in Units}
Lines == {Line(l, ts) : l \in BOOLEAN, ts \in SeqsUpTo(Toks, MaxTokens)}

InitParse ==
    /\ file = Missing
    /\ clock = 1
    /\ runs = 0
    /\ InitLocals
    /\ lastWrite = "none"
    /\ sinceReset = 0
    /\ streak = -1
    /\ streakSaved = TRUE
    /\ lastAlerted = FALSE
    /\ saves = 0
    /\ lastWriteEpoch = 0
    /\ eh = <<>> /\ ew = 0 /\ et = 0 /\ er = NoResult
    /\ po \in SeqsUpTo(Lines, MaxLines)
    /\ pr = NotParsed

Parse ==
    /\ pr = NotParsed
    /\ pr' = parse_cpu_temperatures(po)
    /\ UNCHANGED <<mainVars, evalVars, po>>

NextParse == Parse

SpecParse == InitParse /\ [][NextParse]_vars


\* ------------------------------------------------------------ properties
Min(a, b) == IF a < b THEN a ELSE b

Past(p, places) == pc[p] \in places

\* C1: the exit status is 1 exactly when the sensor read failed, 2 exactly
\* when it succeeded and the parser found no value, and 0 otherwise.
C1_ExitStatus ==
    \A p \in Procs :
        pc[p] = "done" =>
            exitStatus[p] = (IF sensors[p] = "failed" THEN 1
                             ELSE IF temps[p] = <<>> THEN 2
                             ELSE 0)

\* C2: once a temperature has been parsed the invocation returns 0,
\* whatever the record held, however the save and the notification ended.
C2_ParsedRunsReturnZero ==
    \A p \in Procs :
        (pc[p] = "done" /\ temps[p] # <<>>) =>
            (exitStatus[p] = 0 /\ ~raised[p])

\* C3: the history handed to save_history has at most WINDOW_SIZE entries,
\* whatever was loaded, and so has the record after a save that succeeded.
C3_HistoryBounded ==
    /\ \A p \in Procs :
          Past(p, {"save", "check", "done"}) /\ temps[p] # <<>>
              => Len(history[p]) <= WINDOW_SIZE
    /\ lastWrite = "ok" => (file.kind = "list" /\ Len(file.data) <= WINDOW_SIZE)

\* A run that loaded more than WINDOW_SIZE entries, saved and returned 0.
C3_Witness ==
    \E p \in Procs :
        /\ pc[p] = "done" /\ exitStatus[p] = 0
        /\ Len(loaded[p]) > WINDOW_SIZE
        /\ saveResult[p] = "ok"
        /\ Len(file.data) = WINDOW_SIZE

\* C4: the history a run saves is the last WINDOW_SIZE entries of the loaded
\* history followed by the new Observation, in unchanged order; a save that
\* succeeds leaves exactly that list in the record.
C4_SavedIsTailOfLoadedPlusNew ==
    \A p \in Procs :
        (Past(p, {"save", "check", "done"}) /\ temps[p] # <<>>) =>
            LET h == history[p]
                l == loaded[p]
                n == Len(h)
            IN  /\ n = Min(Len(l) + 1, WINDOW_SIZE)
                /\ h[n].dict
                /\ h[n].temperature = Num(temps[p][1])
                /\ h[n].over_threshold = over[p]
                /\ h[n].timestamp >= 1
                /\ \A i \in 1..(n - 1) : h[i] = l[Len(l) - (n - 1) + i]
                /\ (Past(p, {"check", "done"}) /\ saveResult[p] = "ok")
                       => (file.kind = "list" /\ file.data = h)

\* A record of more than WINDOW_SIZE distinct-looking entries was cut.
C4_Witness ==
    \E p \in Procs :
        /\ pc[p] = "done" /\ exitStatus[p] = 0
        /\ saveResult[p] = "ok"
        /\ Len(loaded[p]) = WINDOW_SIZE + 1
        /\ loaded[p][1] # loaded[p][WINDOW_SIZE + 1]
        /\ file.data = history[p]
        /\ history[p][1] = loaded[p][3]


\* The positions of the last n entries of a list (none when n = 0).
LastPositions(s, n) == {i \in 1..Len(s) : i > Len(s) - n}

\* A history entry whose temperature is a number.
HasNumber(e) == e.dict /\ e.temperature.ty = "num"

RECURSIVE TotalFrom(_, _)
TotalFrom(s, i) == IF i > Len(s) THEN 0 ELSE s[i].temperature.v + TotalFrom(s, i + 1)

\* C5: for every window size and threshold, a history with fewer than
\* window_size entries gives not-triggered and no alert, whatever it holds.
C5_ShortHistoryNeverTriggers ==
    (er # NoResult /\ Len(eh) < ew) => er = NotTriggered

\* One entry short of the window, hot enough to exceed the threshold.
C5_Witness ==
    /\ er = NotTriggered
    /\ ew >= 2 /\ Len(eh) = ew - 1
    /\ \A i \in 1..Len(eh) : eh[i] = Dict(Num(92))
    /\ et = 30

\* C6: a window holding an entry whose temperature is non-numeric or missing
\* never triggers: not-triggered is returned and no alert is sent.
C6_IncompleteWindowNeverTriggers ==
    (er # NoResult /\ \E i \in LastPositions(eh, ew) : ~HasNumber(eh[i]))
        => er = NotTriggered

\* C7: with window_size >= 1 and the last window_size temperatures all
\* numbers, the result is triggered exactly when their mean is strictly
\* above the threshold; older entries do not count.
C7_TriggersIffMeanAbove ==
    (/\ er # NoResult
     /\ ew >= 1 /\ Len(eh) >= ew
     /\ \A i \in LastPositions(eh, ew) : HasNumber(eh[i]))
        => /\ er \in {Triggered, NotTriggered}
           /\ er = Triggered <=> TotalFrom(eh, Len(eh) - ew + 1) > et * ew

\* [88, 92, 91] against 90 behind an older entry that would lower the mean.
C7_Witness ==
    /\ er = Triggered
    /\ ew = 3 /\ et = 90
    /\ eh = <<Dict(Num(88)), Dict(Num(88)), Dict(Num(92)), Dict(Num(91))>>


\* A run that returned 0 on a reading of 95, the (streak + 1)-th in a row
\* since the behaviour began with an empty or missing record.
HotRun(p, nth) ==
    /\ pc[p] = "done" /\ exitStatus[p] = 0
    /\ temps[p] = <<95>>
    /\ streak = nth - 1

\* After a cold start or a reset of the history the first WINDOW_SIZE - 1
\* runs fire no alert, whatever the temperatures.
NoAlertWhileFilling ==
    \A p \in Procs :
        (pc[p] = "done" /\ sinceReset \in 1..(WINDOW_SIZE - 1)) =>
            (~alerted[p] /\ \A i \in 1..Len(notes[p]) : notes[p][i].kind # "alert")

C9_LoadFailsOpen ==
    \A p \in Procs :
        pc[p] = "save" =>
            /\ file.kind \in {"missing", "unreadable", "corrupt", "nonlist"}
                   => loaded[p] = <<>>
            /\ file.kind = "list"
                   => (/\ Len(loaded[p]) = Len(file.data)
                       /\ \A i \in 1..Len(file.data) : loaded[p][i] = file.data[i])

\* A list of two different entries came back in order.
C9_Witness ==
    \E p \in Procs :
        /\ pc[p] = "save"
        /\ file.kind = "list"
        /\ Len(loaded[p]) = 2
        /\ loaded[p][1] = NonDict /\ loaded[p][2] = Observation(0, 95, TRUE)

FirstLabelled(o) ==
    IF \E i \in 1..Len(o) : o[i].label
    THEN CHOOSE i \in 1..Len(o) : o[i].label /\ \A j \in 1..(i - 1) : ~o[j].label
    ELSE 0

\* The +<number>°C tokens of a line, with the degree sign U+00B0.
DegreeTokens(line) == SelectSeq(line.tokens, LAMBDA t : t.unit = DegC)

\* C15: the parser decides on the first line with the label only; it returns
\* the number of that line's first +<number>°C token, no value when that
\* line has none (whatever later lines hold) or when no line has the label,
\* and never more than one value.
C15_FirstLabelledLineFirstToken ==
    pr # NotParsed =>
        /\ Len(pr) <= 1
        /\ LET i == FirstLabelled(po) IN
           IF i = 0 THEN pr = <<>>
           ELSE IF DegreeTokens(po[i]) = <<>> THEN pr = <<>>
           ELSE pr = <<Head(DegreeTokens(po[i])).v>>


\* The last WINDOW_SIZE entries of the record are numbers with a mean
\* strictly above THRESHOLD.
PersistedWindowHot ==
    /\ file.kind = "list"
    /\ Len(file.data) >= WINDOW_SIZE
    /\ \A i \in LastPositions(file.data, WINDOW_SIZE) : HasNumber(file.data[i])
    /\ TotalFrom(file.data, Len(file.data) - WINDOW_SIZE + 1) > THRESHOLD * WINDOW_SIZE

AlertAttempted(p) == \E i \in 1..Len(notes[p]) : notes[p][i].kind = "alert"

\* C11: there is no cooldown: a run that returns 0 after a successful save
\* alerts exactly when the mean of the last WINDOW_SIZE persisted
\* temperatures, its own included, is above THRESHOLD, also right after a
\* run that alerted.
C11_NoCooldown ==
    \A p \in Procs :
        (pc[p] = "done" /\ exitStatus[p] = 0 /\ saveResult[p] = "ok") =>
            /\ alerted[p] <=> PersistedWindowHot
            /\ AlertAttempted(p) <=> PersistedWindowHot

\* An alert in the run right after a run that alerted.
C11_Witness ==
    \E p \in Procs :
        /\ pc[p] = "done" /\ exitStatus[p] = 0 /\ saveResult[p] = "ok"
        /\ lastAlerted
        /\ alerted[p] /\ AlertAttempted(p)


\* C13: an invocation that exits with status 1 or 2 has neither loaded nor
\* written the record: the record is the one it found when it started.
C13_FailedRunsLeaveRecord ==
    \A p \in Procs :
        (pc[p] = "done" /\ exitStatus[p] \in {1, 2}) =>
            /\ history[p] = <<>>
            /\ saveResult[p] = "none"
            /\ file = fileAtStart[p]

\* C14: an invocation attempts exactly one error notification when it exits
\* 1 or 2, exactly one alert notification when it exits 0 and the window
\* triggered, and none otherwise, however the delivery ends.
C14_OneNotification ==
    \A p \in Procs :
        pc[p] = "done" =>
            /\ Len(notes[p]) <= 1
            /\ exitStatus[p] \in {1, 2}
                   => (Len(notes[p]) = 1 /\ notes[p][1].kind = "error")
            /\ (exitStatus[p] = 0 /\ alerted[p])
                   => (Len(notes[p]) = 1 /\ notes[p][1].kind = "alert")
            /\ (exitStatus[p] = 0 /\ ~alerted[p]) => notes[p] = <<>>
            /\ \A i \in 1..Len(notes[p]) : notes[p][i].delivery \in Deliveries


\* The same history with every over_threshold flag negated.
FlipFlags(h) == [i \in 1..Len(h) |-> [h[i] EXCEPT !.over_threshold = ~@]]

\* C16: the flag of the appended Observation and the printed status are
\* true exactly when the reading is strictly above THRESHOLD, and the
\* window evaluation gives the same result whatever the flags say.
C16_FlagAndWindowIndependent ==
    \A p \in Procs :
        /\ (Past(p, {"save", "check", "done"}) /\ temps[p] # <<>>) =>
              /\ over[p] <=> temps[p][1] > THRESHOLD
              /\ history[p][Len(history[p])].over_threshold <=> temps[p][1] > THRESHOLD
        /\ (pc[p] = "done" /\ exitStatus[p] = 0) =>
              /\ stdout[p] = (IF temps[p][1] > THRESHOLD THEN "OVER" ELSE "OK")
              /\ alerted[p] <=>
                    check_and_alert(FlipFlags(history[p]), WINDOW_SIZE, THRESHOLD) = Triggered

\* A run that prints OK while the alert fires.
C16_Witness ==
    \E p \in Procs :
        /\ pc[p] = "done" /\ exitStatus[p] = 0
        /\ stdout[p] = "OK" /\ alerted[p]
        /\ temps[p] = <<85>>

\* A run that prints OVER while no alert fires on a full window.
C16_OverWithoutAlert ==
    \E p \in Procs :
        /\ pc[p] = "done" /\ exitStatus[p] = 0
        /\ stdout[p] = "OVER" /\ ~alerted[p]
        /\ Len(history[p]) = WINDOW_SIZE


\* Invocation p wrote the record, and nothing wrote it since.
WroteLast(p) == saveResult[p] = "ok" /\ saveEpoch[p] = lastWriteEpoch

\* The Observation invocation p appended.
OwnObservation(p) == history[p][Len(history[p])]

InRecord(e) == file.kind = "list" /\ \E i \in 1..Len(file.data) : file.data[i] = e

\* p and q both saved, q first, and p had loaded before q saved.
LostUpdate(p, q) ==
    /\ p # q
    /\ pc[p] = "done" /\ pc[q] = "done"
    /\ saveResult[p] = "ok" /\ saveResult[q] = "ok"
    /\ saveEpoch[q] < saveEpoch[p]
    /\ loadEpoch[p] < saveEpoch[q]

====
